---- MODULE Spec2Model ----
(***************************************************************************)
(* Native-device reductions of chainerx (reduction.cc): the four operation *)
(* adapters ArgMax, ArgMin, Sum and AMax, each a precondition check, a     *)
(* device check and one run of the generic reduction engine with the       *)
(* adapter's policy (Identity, MapIn, Reduce, MapOut).                     *)
(*                                                                         *)
(* Conventions.  Axes are numbered from 1 here (axis k of the source is    *)
(* axis k+1).  Tensors are held in row-major order as sequences; the       *)
(* indices the engine hands to MapIn count from 0 as in the source.        *)
(* Floating values are integers plus the two codes NegInf and NaN.         *)
(***************************************************************************)
EXTENDS Integers, Sequences, FiniteSets

VARIABLES
    pc,         \* position of the call: idle, check_nonempty, check_shape,
                \* check_device, reduce, fold, done, assert_failed, device_error
    op,         \* the adapter called
    inDtype,    \* a.dtype()
    outDtype,   \* out.dtype()
    shape,      \* a.shape()
    axes,       \* the axes to reduce (a set of axis numbers)
    outShape,   \* out.shape()
    a,          \* the input buffer, row-major
    devOk,      \* whether a and out live on compatible devices
    out,        \* the output buffer: <<>> where nothing was written, <<v>> where v was
    writes,     \* how often each output element was written
    accums,     \* the live accumulators of the engine
    iOut,       \* the engine's output iterator
    iReduce,    \* the engine's index within the current group
    folded,     \* the indices folded into the current accumulator, in order
    failed,     \* which assertion failed: none, nonempty, shape
    devChecked  \* whether CheckDevicesCompatible was called

vars == <<pc, op, inDtype, outDtype, shape, axes, outShape, a, devOk, out,
          writes, accums, iOut, iReduce, folded, failed, devChecked>>

---------------------------------------------------------------------------
(* Bounds of the model *)

MaxElems == 4

MaxRank == 2

---------------------------------------------------------------------------
(* Element types and their values *)

NegInf == -1000

NaN == 2000

IsNan(x) == x = NaN

\* operator< of the element type: false whenever an operand is NaN
Lt(x, y) == ~IsNan(x) /\ ~IsNan(y) /\ x < y

\* operator<= of the element type: false whenever an operand is NaN
Le(x, y) == ~IsNan(x) /\ ~IsNan(y) /\ x <= y

\* NumericLimits<T>::LowestOrInf()
LowestOrInf(dtype) ==
    CASE dtype = "int8" -> -128
      [] dtype = "uint8" -> 0
      [] dtype = "float32" -> NegInf

\* conversion of an integer to an integer type: reduction modulo 2^8
Wrap(v, dtype) ==
    CASE dtype = "int8" -> ((v + 128) % 256) - 128
      [] dtype = "uint8" -> v % 256

FloatAdd(x, y) ==
    IF IsNan(x) \/ IsNan(y) THEN NaN
    ELSE IF x = NegInf \/ y = NegInf THEN NegInf
    ELSE x + y

\* static_cast<To>(v)
Cast(v, to) == IF to = "float32" THEN v ELSE Wrap(v, to)

\* x + y in the type dtype
Add(x, y, dtype) == IF dtype = "float32" THEN FloatAdd(x, y) ELSE Wrap(x + y, dtype)

Values(dtype) ==
    CASE dtype = "int8" -> {-128, -1, 127}
      [] dtype = "uint8" -> {0, 1, 255}
      [] dtype = "float32" -> {NegInf, 1, NaN}

---------------------------------------------------------------------------
(* Shapes and indexing *)

RECURSIVE Prod(_)
Prod(s) == IF s = <<>> THEN 1 ELSE Head(s) * Prod(Tail(s))

\* the elements of a set of integers in ascending order
SortedSeq(S) ==
    [i \in 1..Cardinality(S) |-> CHOOSE x \in S : Cardinality({y \in S : y < x}) = i - 1]

Rank(s) == Len(s)

KeptAxes(s, ax) == SortedSeq((1..Rank(s)) \ ax)

ReducedAxes(s, ax) == SortedSeq(ax)

Dims(s, axSeq) == [i \in 1..Len(axSeq) |-> s[axSeq[i]]]

\* the input shape with the reduced axes removed
DropShape(s, ax) == Dims(s, KeptAxes(s, ax))

\* the input shape with the reduced axes set to 1
KeepShape(s, ax) == [i \in 1..Rank(s) |-> IF i \in ax THEN 1 ELSE s[i]]

\* row-major stride of axis i of a tensor with dimensions dims
Stride(dims, i) == Prod(SubSeq(dims, i + 1, Len(dims)))

\* coordinates of the k-th element (from 0) of a tensor with dimensions dims
Unravel(k, dims) == [i \in 1..Len(dims) |-> (k \div Stride(dims, i)) % dims[i]]

\* offset (from 0) of the element at coordinates c
Offset(c, dims) ==
    LET RECURSIVE Acc(_)
        Acc(i) == IF i = 0 THEN 0 ELSE c[i] * Stride(dims, i) + Acc(i - 1)
    IN Acc(Len(dims))

PosIn(axSeq, i) == CHOOSE p \in 1..Len(axSeq) : axSeq[p] = i

\* input offset of the r-th element (from 0) of the group of output o (from 0)
InOffset(s, ax, o, r) ==
    LET kept == KeptAxes(s, ax)
        red == ReducedAxes(s, ax)
        ck == Unravel(o, Dims(s, kept))
        cr == Unravel(r, Dims(s, red))
        c == [i \in 1..Rank(s) |-> IF i \in ax THEN cr[PosIn(red, i)] ELSE ck[PosIn(kept, i)]]
    IN Offset(c, s)

\* number of elements in each group
NReduce(s, ax) == Prod(Dims(s, ReducedAxes(s, ax)))

\* the group of output o (from 0) in the engine's visitation order
GroupOf(arr, s, ax, o) == [r \in 1..NReduce(s, ax) |-> arr[InOffset(s, ax, o, r - 1) + 1]]

---------------------------------------------------------------------------
(* The policies of the four adapters *)

\* ArgMax: the accumulator is MaxAndArgMax {max, argmax}
ArgMaxIdentity == [max |-> 0, argmax |-> -1]

ArgMaxMapIn(in, index) == [max |-> in, argmax |-> index]

\* ArgMaxReduce with <= for <: a later equal value replaces the accumulator
ArgMaxReduce_le(next, accum) ==
    IF accum.argmax < 0 \/ Le(accum.max, next.max) THEN next ELSE accum

\* ArgMaxReduce with the comparison turned round
ArgMaxReduce_gt(next, accum) ==
    IF accum.argmax < 0 \/ Lt(next.max, accum.max) THEN next ELSE accum

\* ArgMaxReduce without the test of the index
ArgMaxReduce_noindex(next, accum) ==
    IF Lt(accum.max, next.max) THEN next ELSE accum

ArgMaxReduce(next, accum) ==
    IF accum.argmax < 0 \/ Lt(accum.max, next.max) THEN next ELSE accum

ArgMaxMapOut(accum) == accum.argmax

\* ArgMin: the accumulator is MinAndArgMin {min, argmin}
ArgMinIdentity == [min |-> 0, argmin |-> -1]

ArgMinMapIn(in, index) == [min |-> in, argmin |-> index]

ArgMinReduce(next, accum) ==
    IF accum.argmin < 0 \/ Lt(next.min, accum.min) THEN next ELSE accum

ArgMinMapOut(accum) == accum.argmin

\* Sum: Accum is Out (float for a Float16 output)
SumIdentity == 0

SumMapIn(in, index, accumType) == Cast(in, accumType)

\* SumReduce that stops at the limits of the type instead of wrapping
SumReduce_saturating(next, accum, accumType) ==
    IF accumType = "float32" THEN FloatAdd(accum, next)
    ELSE LET lo == LowestOrInf(accumType)
             hi == lo + 255
             t == accum + next
         IN IF t < lo THEN lo ELSE IF t > hi THEN hi ELSE t

SumReduce(next, accum, accumType) == Add(accum, next, accumType)

SumMapOut(accum, outType) == Cast(accum, outType)

\* AMax
\* AMaxIdentity with T{} for the lowest value
AMaxIdentity_zero(dtype) == 0

AMaxIdentity(dtype) == LowestOrInf(dtype)

\* AMaxMapIn returning its other argument
AMaxMapIn_index(in, index) == index

AMaxMapIn(in, index) == in

\* AMaxReduce without the test for NaN
AMaxReduce_nonan(next, accum) == IF Lt(accum, next) THEN next ELSE accum

AMaxReduce(next, accum) == IF IsNan(next) \/ Lt(accum, next) THEN next ELSE accum

AMaxMapOut(accum) == accum

\* the policy the adapter o hands to the engine
Identity(o, outT) ==
    CASE o = "ArgMax" -> ArgMaxIdentity
      [] o = "ArgMin" -> ArgMinIdentity
      [] o = "Sum" -> SumIdentity
      [] o = "AMax" -> AMaxIdentity(outT)

MapIn(o, outT, in, index) ==
    CASE o = "ArgMax" -> ArgMaxMapIn(in, index)
      [] o = "ArgMin" -> ArgMinMapIn(in, index)
      [] o = "Sum" -> SumMapIn(in, index, outT)
      [] o = "AMax" -> AMaxMapIn(in, index)

Combine(o, outT, next, accum) ==
    CASE o = "ArgMax" -> ArgMaxReduce(next, accum)
      [] o = "ArgMin" -> ArgMinReduce(next, accum)
      [] o = "Sum" -> SumReduce(next, accum, outT)
      [] o = "AMax" -> AMaxReduce(next, accum)

MapOut(o, outT, accum) ==
    CASE o = "ArgMax" -> ArgMaxMapOut(accum)
      [] o = "ArgMin" -> ArgMinMapOut(accum)
      [] o = "Sum" -> SumMapOut(accum, outT)
      [] o = "AMax" -> AMaxMapOut(accum)

---------------------------------------------------------------------------
(* Preconditions of the adapters *)

\* AllReducedAxesNonEmpty with >= for >
AllReducedAxesNonEmpty_ge(s, ax) == \A i \in ax : s[i] >= 0

\* std::all_of(axis, a.shape()[i] > 0)
AllReducedAxesNonEmpty(s, ax) == \A i \in ax : s[i] > 0

\* adapters that assert it
AssertsNonEmpty(o) == o \in {"ArgMax", "ArgMin"}

\* AllowKeepDims with true for every adapter
AllowKeepDims_all(o) == TRUE

\* the allow_keepdims argument the adapter passes to IsValidReductionShape
AllowKeepDims(o) == o \in {"Sum", "AMax"}

IsValidReductionShape(inS, ax, outS, allowKeepDims) ==
    \/ outS = DropShape(inS, ax)
    \/ allowKeepDims /\ outS = KeepShape(inS, ax)

---------------------------------------------------------------------------
(* The calls the model makes *)

Ops == {"ArgMax", "ArgMin", "Sum", "AMax"}

\* the (operation, input type, output type) instantiations VisitDtype selects
Instantiations ==
    [op : {"ArgMax", "ArgMin"}, in : {"int8", "float32"}, out : {"int64"}]
    \cup {[op |-> "AMax", in |-> t, out |-> t] : t \in {"int8", "float32"}}
    \cup [op : {"Sum"}, in : {"int8", "uint8"}, out : {"int8", "uint8"}]
    \cup {[op |-> "Sum", in |-> "float32", out |-> "float32"]}

\* the shapes tried: at most MaxElems elements, empty axes included; an empty
\* axis counts as one in the bound, which bounds the output of a reduction
\* over it as well
Shapes ==
    {s \in UNION {[1..r -> 0..MaxElems] : r \in 0..MaxRank} :
        Prod([i \in 1..Len(s) |-> IF s[i] = 0 THEN 1 ELSE s[i]]) <= MaxElems}

\* output shapes tried: the two valid candidates and two others
OutShapes(s, ax) ==
    {DropShape(s, ax), KeepShape(s, ax), s, Append(DropShape(s, ax), 1)}

NOut == Prod(outShape)

CurGroup == GroupOf(a, shape, axes, iOut)

---------------------------------------------------------------------------
(* The state machine of one call *)

\* no call is in progress; the adapters hold no state of their own, and the
\* tensors are those of a scalar Sum until a call brings its own
Init ==
    /\ pc = "idle"
    /\ op = "Sum"
    /\ inDtype = "int8"
    /\ outDtype = "int8"
    /\ shape = <<>>
    /\ axes = {}
    /\ outShape = <<>>
    /\ a = <<0>>
    /\ devOk = TRUE
    /\ out = <<<<>>>>
    /\ writes = <<0>>
    /\ accums = <<>>
    /\ iOut = 0
    /\ iReduce = 0
    /\ folded = <<>>
    /\ failed = "none"
    /\ devChecked = FALSE

\* Call(a, axis, out) of one of the instantiations insts is entered
CallOf(insts) ==
    /\ pc = "idle"
    /\ \E inst \in insts, s \in Shapes, d \in BOOLEAN :
         \E ax \in SUBSET (1..Rank(s)) :
           \E os \in OutShapes(s, ax), arr \in [1..Prod(s) -> Values(inst.in)] :
             /\ op' = inst.op
             /\ inDtype' = inst.in
             /\ outDtype' = inst.out
             /\ shape' = s
             /\ axes' = ax
             /\ outShape' = os
             /\ a' = arr
             /\ devOk' = d
             /\ out' = [o \in 1..Prod(os) |-> <<>>]
             /\ writes' = [o \in 1..Prod(os) |-> 0]
             /\ pc' = IF AssertsNonEmpty(inst.op) THEN "check_nonempty" ELSE "check_shape"
    /\ UNCHANGED <<accums, iOut, iReduce, folded, failed, devChecked>>

\* a call of any adapter
Call == CallOf(Instantiations)

\* a call of NativeArgMaxOp or NativeArgMinOp
CallArg == CallOf({i \in Instantiations : i.op \in {"ArgMax", "ArgMin"}})

\* a call of NativeSumOp
CallSum == CallOf({i \in Instantiations : i.op = "Sum"})

\* a call of NativeAMaxOp
CallAMax == CallOf({i \in Instantiations : i.op = "AMax"})

\* CHAINERX_ASSERT(std::all_of(...))
AssertNonEmpty ==
    /\ pc = "check_nonempty"
    /\ IF AllReducedAxesNonEmpty(shape, axes)
       THEN pc' = "check_shape" /\ failed' = failed
       ELSE pc' = "assert_failed" /\ failed' = "nonempty"
    /\ UNCHANGED <<op, inDtype, outDtype, shape, axes, outShape, a, devOk, out,
                   writes, accums, iOut, iReduce, folded, devChecked>>

\* CHAINERX_ASSERT(internal::IsValidReductionShape(...))
AssertShape ==
    /\ pc = "check_shape"
    /\ IF IsValidReductionShape(shape, axes, outShape, AllowKeepDims(op))
       THEN pc' = "check_device" /\ failed' = failed
       ELSE pc' = "assert_failed" /\ failed' = "shape"
    /\ UNCHANGED <<op, inDtype, outDtype, shape, axes, outShape, a, devOk, out,
                   writes, accums, iOut, iReduce, folded, devChecked>>

\* a.device().CheckDevicesCompatible(a, out)
CheckDevice ==
    /\ pc = "check_device"
    /\ devChecked' = TRUE
    /\ pc' = IF devOk THEN "reduce" ELSE "device_error"
    /\ iOut' = 0
    /\ UNCHANGED <<op, inDtype, outDtype, shape, axes, outShape, a, devOk, out,
                   writes, accums, iReduce, folded, failed>>

\* the engine starts the group of the next output element
BeginOutput ==
    /\ pc = "reduce"
    /\ iOut < NOut
    /\ accums' = Append(accums, Identity(op, outDtype))
    /\ iReduce' = 0
    /\ folded' = <<>>
    /\ pc' = "fold"
    /\ UNCHANGED <<op, inDtype, outDtype, shape, axes, outShape, a, devOk, out,
                   writes, iOut, failed, devChecked>>

\* Fold visiting the group from its last element to its first
Fold_descending ==
    /\ pc = "fold"
    /\ iReduce < NReduce(shape, axes)
    /\ LET i == NReduce(shape, axes) - 1 - iReduce
       IN /\ accums' = [accums EXCEPT ![Len(accums)] =
                          Combine(op, outDtype, MapIn(op, outDtype, CurGroup[i + 1], i), @)]
          /\ folded' = Append(folded, i)
    /\ iReduce' = iReduce + 1
    /\ UNCHANGED <<pc, op, inDtype, outDtype, shape, axes, outShape, a, devOk, out,
                   writes, iOut, failed, devChecked>>

\* the engine folds the next element of the group; the index it hands to MapIn
\* is the position of the element within the group, from 0
Fold ==
    /\ pc = "fold"
    /\ iReduce < NReduce(shape, axes)
    /\ accums' = [accums EXCEPT ![Len(accums)] =
                    Combine(op, outDtype, MapIn(op, outDtype, CurGroup[iReduce + 1], iReduce), @)]
    /\ folded' = Append(folded, iReduce)
    /\ iReduce' = iReduce + 1
    /\ UNCHANGED <<pc, op, inDtype, outDtype, shape, axes, outShape, a, devOk, out,
                   writes, iOut, failed, devChecked>>

\* the engine writes the output element and moves to the next
WriteOutput ==
    /\ pc = "fold"
    /\ iReduce = NReduce(shape, axes)
    /\ out' = [out EXCEPT ![iOut + 1] = <<MapOut(op, outDtype, accums[Len(accums)])>>]
    /\ writes' = [writes EXCEPT ![iOut + 1] = @ + 1]
    /\ accums' = SubSeq(accums, 1, Len(accums) - 1)
    /\ iOut' = iOut + 1
    /\ pc' = "reduce"
    /\ UNCHANGED <<op, inDtype, outDtype, shape, axes, outShape, a, devOk,
                   iReduce, folded, failed, devChecked>>

\* the engine has visited every output element
Finish ==
    /\ pc = "reduce"
    /\ iOut = NOut
    /\ pc' = "done"
    /\ UNCHANGED <<op, inDtype, outDtype, shape, axes, outShape, a, devOk, out,
                   writes, accums, iOut, iReduce, folded, failed, devChecked>>

Next ==
    \/ Call
    \/ AssertNonEmpty
    \/ AssertShape
    \/ CheckDevice
    \/ BeginOutput
    \/ Fold
    \/ WriteOutput
    \/ Finish

Spec == Init /\ [][Next]_vars

\* the calls of ArgMax and ArgMin alone
NextArg ==
    \/ CallArg
    \/ AssertNonEmpty
    \/ AssertShape
    \/ CheckDevice
    \/ BeginOutput
    \/ Fold
    \/ WriteOutput
    \/ Finish

SpecArg == Init /\ [][NextArg]_vars

\* the calls of Sum alone
NextSum ==
    \/ CallSum
    \/ AssertShape
    \/ CheckDevice
    \/ BeginOutput
    \/ Fold
    \/ WriteOutput
    \/ Finish

SpecSum == Init /\ [][NextSum]_vars

\* the calls of AMax alone
NextAMax ==
    \/ CallAMax
    \/ AssertShape
    \/ CheckDevice
    \/ BeginOutput
    \/ Fold
    \/ WriteOutput
    \/ Finish

SpecAMax == Init /\ [][NextAMax]_vars

---------------------------------------------------------------------------
(* What the engine computes for one group, as a function *)

RECURSIVE FoldPrefix(_, _, _, _)
\* the accumulator after the first n elements of the group g
FoldPrefix(o, outT, g, n) ==
    IF n = 0 THEN Identity(o, outT)
    ELSE Combine(o, outT, MapIn(o, outT, g[n], n - 1), FoldPrefix(o, outT, g, n - 1))

ReduceGroup(o, outT, g) == MapOut(o, outT, FoldPrefix(o, outT, g, Len(g)))

---------------------------------------------------------------------------
(* Vocabulary of the properties *)

ArgOps == {"ArgMax", "ArgMin"}

Terminal == {"done", "assert_failed", "device_error"}

Written(o) == writes[o] > 0

NoneWritten == \A o \in 1..Len(out) : writes[o] = 0 /\ out[o] = <<>>

\* the group of the o-th output element (from 1)
Group(o) == GroupOf(a, shape, axes, o - 1)

\* the positions (from 1) of the greatest, of the least value of g; none when
\* g holds a NaN, which compares with nothing
MaxPositions(g) == {i \in 1..Len(g) : \A j \in 1..Len(g) : Le(g[j], g[i])}

MinPositions(g) == {i \in 1..Len(g) : \A j \in 1..Len(g) : Le(g[i], g[j])}

ExtremePositions(g) == IF op = "ArgMax" THEN MaxPositions(g) ELSE MinPositions(g)

Least(S) == CHOOSE x \in S : \A y \in S : x <= y

HasNan(g) == \E j \in 1..Len(g) : IsNan(g[j])

\* one axis is reduced and its length is 1
SingleUnitAxis == Cardinality(axes) = 1 /\ \A i \in axes : shape[i] = 1

---------------------------------------------------------------------------
(* ArgMax and ArgMin *)

\* C1: ArgMax and ArgMin break ties by first occurrence: where the greatest
\* (ArgMax) or least (ArgMin) value of a non-empty group occurs at several
\* positions, the index written is the smallest of these positions in the
\* engine's visitation order.
C1_TieFirstOccurrence ==
    pc = "done" /\ op \in ArgOps =>
        \A o \in 1..Len(out) :
            Written(o) =>
                LET E == ExtremePositions(Group(o))
                IN Cardinality(E) >= 2 => out[o] = <<Least(E) - 1>>

\* ArgMax of [127, 127, -1, 127] over all axes has written 0
C1_Witness ==
    /\ pc = "done"
    /\ op = "ArgMax"
    /\ shape = <<4>>
    /\ axes = {1}
    /\ a = <<127, 127, -1, 127>>
    /\ out = <<<<0>>>>

C10_IndexInRange ==
    pc = "done" /\ op \in ArgOps =>
        \A o \in 1..Len(out) :
            Written(o) => out[o][1] >= 0 /\ out[o][1] < NReduce(shape, axes)

\* ArgMax of a group whose every value is below T{} = 0
C10_Witness ==
    /\ pc = "done"
    /\ op = "ArgMax"
    /\ shape = <<3>>
    /\ axes = {1}
    /\ a = <<-128, -1, -128>>
    /\ out = <<<<1>>>>

---------------------------------------------------------------------------
(* AMax *)

\* C2: AMax propagates NaN: the output of a group that holds a NaN, at any
\* position, is NaN, and once the accumulator is NaN no later element that is
\* not NaN replaces it.
C2_NaNPropagates ==
    op = "AMax" =>
        /\ pc = "done" =>
               \A o \in 1..Len(out) :
                   Written(o) /\ HasNan(Group(o)) => out[o] = <<NaN>>
        /\ pc = "fold" /\ HasNan(SubSeq(CurGroup, 1, iReduce)) =>
               IsNan(accums[Len(accums)])

\* AMax of [[1, NaN, 1]] over the last axis has written NaN
C2_Witness ==
    /\ pc = "done"
    /\ op = "AMax"
    /\ shape = <<1, 3>>
    /\ axes = {2}
    /\ a = <<1, NaN, 1>>
    /\ out = <<<<NaN>>>>

\* C3: AMax computes the maximum: the output of a non-empty group without NaN
\* is a value of the group that no value of the group exceeds.
C3_TrueMaximum ==
    pc = "done" /\ op = "AMax" =>
        \A o \in 1..Len(out) :
            LET g == Group(o)
            IN Written(o) /\ Len(g) > 0 /\ ~HasNan(g) =>
                   /\ \E j \in 1..Len(g) : out[o] = <<g[j]>>
                   /\ \A j \in 1..Len(g) : g[j] <= out[o][1]

\* AMax of a group of negative values, the lowest value of the type among them
C3_Witness ==
    /\ pc = "done"
    /\ op = "AMax"
    /\ inDtype = "int8"
    /\ shape = <<3>>
    /\ axes = {1}
    /\ a = <<-128, -1, -128>>
    /\ out = <<<<-1>>>>

---------------------------------------------------------------------------
(* Preconditions *)

\* C4: ArgMax and ArgMin reject a reduced axis of length 0: the call ends in
\* the failure of the assertion, before the device check and the engine, and
\* nothing is written to the output; an axis of length 0 that is kept does
\* not make this assertion fail.
C4_ZeroLengthAxisRejected ==
    /\ pc # "idle" /\ op \in ArgOps /\ (\E i \in axes : shape[i] = 0) =>
           /\ pc \in {"check_nonempty", "assert_failed"}
           /\ pc = "assert_failed" => failed = "nonempty"
           /\ ~devChecked
           /\ NoneWritten
    /\ failed = "nonempty" => op \in ArgOps /\ \E i \in axes : shape[i] = 0

\* ArgMax of a tensor of shape (0, 3) over its first axis has failed
C4_Witness ==
    /\ pc = "assert_failed"
    /\ failed = "nonempty"
    /\ op = "ArgMax"
    /\ shape = <<0, 3>>
    /\ axes = {1}
    /\ outShape = <<3>>
    /\ NoneWritten

\* the output shapes the adapter op accepts
ShapeAccepted ==
    \/ outShape = DropShape(shape, axes)
    \/ op \in {"Sum", "AMax"} /\ outShape = KeepShape(shape, axes)

\* C9: Sum and AMax accept the output shape with the reduced axes removed or
\* kept with size 1, ArgMax and ArgMin only the one with the reduced axes
\* removed; any other output shape fails the assertion, which is evaluated
\* before the device check and before anything is written.
C9_ShapePrecondition ==
    /\ pc \in {"check_device", "done", "device_error"} => ShapeAccepted
    /\ failed = "shape" => ~ShapeAccepted
    /\ pc \in Terminal /\ ~ShapeAccepted => pc = "assert_failed"
    /\ pc = "assert_failed" => ~devChecked /\ NoneWritten

\* ArgMax has failed the assertion on a keep-dims output shape, the devices
\* being incompatible as well
C9_Witness ==
    /\ pc = "assert_failed"
    /\ failed = "shape"
    /\ op = "ArgMax"
    /\ shape = <<2, 2>>
    /\ axes = {2}
    /\ outShape = <<2, 1>>
    /\ ~devOk
    /\ ~devChecked

---------------------------------------------------------------------------
(* Sum *)

\* the part of the tensor arr of shape s whose coordinate along axis k runs
\* over lo .. lo + n - 1
Slice(arr, s, k, lo, n) ==
    LET s2 == [s EXCEPT ![k] = n]
    IN [e \in 1..Prod(s2) |->
          LET c == Unravel(e - 1, s2)
          IN arr[Offset([c EXCEPT ![k] = c[k] + lo], s) + 1]]

\* Sum of the tensor arr of shape s over ax, element o (from 1) of the result
SumOf(arr, s, ax, o) == ReduceGroup("Sum", outDtype, GroupOf(arr, s, ax, o - 1))

\* C6: Sum is additive over concatenation along a reduced axis: for an input
\* that is the concatenation of A and B along a reduced axis, input and output
\* of the same integer type, every element of Sum(input) is the sum, modulo the
\* width of the type, of the corresponding elements of Sum(A) and Sum(B).
C6_SumAdditive ==
    pc = "done" /\ op = "Sum" /\ inDtype = outDtype /\ inDtype \in {"int8", "uint8"} =>
        \A k \in axes : \A m \in 0..shape[k] :
            LET sA == [shape EXCEPT ![k] = m]
                sB == [shape EXCEPT ![k] = shape[k] - m]
                A == Slice(a, shape, k, 0, m)
                B == Slice(a, shape, k, m, shape[k] - m)
            IN \A o \in 1..Len(out) :
                   out[o] = <<Wrap(SumOf(A, sA, axes, o) + SumOf(B, sB, axes, o), outDtype)>>

\* Sum of the int8 tensor [[127, -1], [127, 127]] over its first axis has
\* written [-2, 126], the first sum having wrapped
C6_Witness ==
    /\ pc = "done"
    /\ op = "Sum"
    /\ inDtype = "int8"
    /\ outDtype = "int8"
    /\ shape = <<2, 2>>
    /\ axes = {1}
    /\ a = <<127, -1, 127, 127>>
    /\ out = <<<<-2>>, <<126>>>>

---------------------------------------------------------------------------
(* Reduction over one axis of length 1 *)

\* C7 as stated: for every adapter, reducing over a single axis of length 1
\* returns the input unchanged: every output element is the one input element
\* of its group.
C7_IdentityReductionAllOps ==
    pc = "done" /\ SingleUnitAxis =>
        \A o \in 1..Len(out) : out[o] = <<Group(o)[1]>>

\* C7 as amended: reducing over a single axis of length 1 returns the input
\* unchanged for AMax and for Sum with the same input and output type; Sum to
\* another output type returns the input converted to that type; ArgMax and
\* ArgMin write the index 0 for every output element.
C7_IdentityReduction ==
    pc = "done" /\ SingleUnitAxis =>
        \A o \in 1..Len(out) :
            /\ op = "AMax" => out[o] = <<Group(o)[1]>>
            /\ op = "Sum" /\ inDtype = outDtype => out[o] = <<Group(o)[1]>>
            /\ op = "Sum" => out[o] = <<Cast(Group(o)[1], outDtype)>>
            /\ op \in ArgOps => out[o] = <<0>>

\* AMax of the int8 tensor [[127], [-1]] over its last axis, of length 1
C7_Witness ==
    /\ pc = "done"
    /\ op = "AMax"
    /\ inDtype = "int8"
    /\ shape = <<2, 1>>
    /\ axes = {2}
    /\ a = <<127, -1>>
    /\ out = <<<<127>>, <<-1>>>>

---------------------------------------------------------------------------
(* The engine *)

\* the indices 0 .. n - 1 in ascending order
Ascending(n) == [i \in 1..n |-> i - 1]

\* what holds of the engine in every state
C8_State ==
    /\ Len(accums) <= 1
    /\ \A o \in 1..Len(out) :
           /\ writes[o] <= 1
           /\ writes[o] = 0 => out[o] = <<>>
    /\ pc = "fold" => Len(accums) = 1 /\ folded = Ascending(iReduce)
    /\ pc = "done" =>
           \A o \in 1..Len(out) :
               /\ writes[o] = 1
               /\ out[o] = <<ReduceGroup(op, outDtype, Group(o))>>

\* what holds of every step of the engine
C8_Step ==
    /\ pc # "idle" => a' = a
    /\ accums' # accums => pc \in {"reduce", "fold"}
    /\ pc = "reduce" /\ accums' # accums =>
           accums' = <<Identity(op, outDtype)>> /\ folded' = <<>>
    /\ pc = "fold" /\ folded' # folded =>
           LET i == Len(folded)
           IN /\ i < NReduce(shape, axes)
              /\ folded' = Append(folded, i)
              /\ accums' = <<Combine(op, outDtype,
                                     MapIn(op, outDtype, CurGroup[i + 1], i), accums[1])>>
              /\ writes' = writes
    /\ pc = "fold" /\ folded' = folded /\ accums' # accums => writes' # writes
    /\ pc # "idle" /\ writes' # writes =>
           /\ pc = "fold"
           /\ folded = Ascending(NReduce(shape, axes))
           /\ \E o \in 1..Len(out) :
                  /\ writes[o] = 0
                  /\ writes' = [writes EXCEPT ![o] = 1]
                  /\ out' = [out EXCEPT ![o] = <<MapOut(op, outDtype, accums[1])>>]

\* C8: in one call every output element is written exactly once, and only
\* after an accumulator started from Identity() has taken every element of the
\* group through Combine(MapIn(element, index), accum) in ascending order of
\* the index; the input is never written and at most one accumulator is live.
C8_WriteOnceAfterFold == []C8_State /\ [][C8_Step]_vars

\* the second output element of a 2 x 2 reduction has just been written
C8_Witness ==
    /\ pc = "reduce"
    /\ op = "ArgMax"
    /\ shape = <<2, 2>>
    /\ axes = {2}
    /\ iOut = 2
    /\ writes = <<1, 1>>
    /\ folded = <<0, 1>>
    /\ accums = <<>>

====
